---- MODULE Spec2Model ----
(***************************************************************************)
(* Sarah-HR: the fact-constrained interview engine.                        *)
(*                                                                         *)
(* A text is a sequence of symbols.  A digit is one character; every other *)
(* symbol stands for one whole word of the real text:                      *)
(*   " "  white space                                                      *)
(*   "Y"  a duration unit word (one of the alternatives of the regular     *)
(*        expression of verify_response)                                   *)
(*   "J"  a currency unit word (one of the alternatives of salary_pattern) *)
(*   "a"  an Arabic word that is in no table                               *)
(*   "M"  a formal (MSA) word of MSA_TO_JORDANIAN, "S" its colloquial form *)
(*   "e"  an English word of four letters or more                          *)
(*   "n"  the system note the handler appends to a transcript              *)
(* All symbols but " " are word characters (\w) for the regular            *)
(* expressions.                                                            *)
(***************************************************************************)
EXTENDS Integers, Sequences, FiniteSets, TLC

VARIABLES
  contract,   \* the CandidateContract of the session
  istate,     \* handle_interview's local interview_state
  registered, \* the dict stored in active_sessions[interview_id]
  active,     \* interview_id in active_sessions
  alias,      \* interview_state is the dict stored in active_sessions
  pc,         \* where handle_interview stands
  outbox,     \* the last message sent on the websocket
  persisted,  \* the writes _finalize_interview made to the datastore
  finalized,  \* what each _finalize_interview call came to
  last,       \* what the last process_turn call did
  vin, vcontract, vout, \* one verify_response call: input, contract, result
  sresp, sout, \* one end-of-interview scoring: completion outcome, result
  row,        \* result.data of load_contract's query
  tcontract, tout, \* a contract written to round Config.frozen; one
              \* verify_integrity call on it
  conn,       \* per websocket: where its handle_interview call stands
  sessions,   \* the handler's active_sessions dict
  saved,      \* the _finalize_interview calls the handler has made
  pcall,      \* one PersonaEnforcer.enforce call: arguments, result
  page        \* the state of the candidate's interview page

Digits == {"0", "1", "2", "3", "4", "5", "6", "7", "8", "9"}
WhiteSpace == {" "}
DurationUnits == {"Y"}
CurrencyUnits == {"J"}

None == [some |-> FALSE, val |-> <<>>]
Some(x) == [some |-> TRUE, val |-> x]

Min(S) == CHOOSE x \in S : \A y \in S : x <= y

\* the element of a one-element set
The(S) == CHOOSE x \in S : TRUE

(* ---------------- Python string and integer primitives ---------------- *)

DigitVal(c) ==
  CASE c = "0" -> 0 [] c = "1" -> 1 [] c = "2" -> 2 [] c = "3" -> 3
    [] c = "4" -> 4 [] c = "5" -> 5 [] c = "6" -> 6 [] c = "7" -> 7
    [] c = "8" -> 8 [] c = "9" -> 9

DigitChar(d) == <<"0", "1", "2", "3", "4", "5", "6", "7", "8", "9">>[d + 1]

\* int(num) of a string of digits
RECURSIVE StrToInt(_)
StrToInt(ds) ==
  IF ds = <<>> THEN 0
  ELSE 10 * StrToInt(SubSeq(ds, 1, Len(ds) - 1)) + DigitVal(ds[Len(ds)])

\* the f-string rendering of a non-negative integer
RECURSIVE IntToStr(_)
IntToStr(n) ==
  IF n < 10 THEN <<DigitChar(n)>>
  ELSE Append(IntToStr(n \div 10), DigitChar(n % 10))

\* str.replace(old, new): every non-overlapping occurrence, left to right
RECURSIVE ReplaceFrom(_, _, _, _)
ReplaceFrom(s, old, new, i) ==
  IF i + Len(old) - 1 > Len(s) THEN SubSeq(s, i, Len(s))
  ELSE IF SubSeq(s, i, i + Len(old) - 1) = old
       THEN new \o ReplaceFrom(s, old, new, i + Len(old))
       ELSE <<s[i]>> \o ReplaceFrom(s, old, new, i + 1)

StrReplace(s, old, new) == ReplaceFrom(s, old, new, 1)

\* the last index of the longest run of symbols of S that starts at i
\* (i - 1 when s[i] is not in S)
RunEnd(s, i, S) ==
  CHOOSE j \in (i - 1)..Len(s) :
    /\ \A k \in i..j : s[k] \in S
    /\ j = Len(s) \/ s[j + 1] \notin S

IsWordChar(c) == c \notin WhiteSpace

\* \b in front of position i, where s[i] is a word character
WordBoundaryBefore(s, i) == i = 1 \/ ~IsWordChar(s[i - 1])

(* ---------------------------- FactVerifier ---------------------------- *)

\* one match of  (\d+)\s*(unit)  at position i: the digits are taken greedily
\* and no shorter run can match, since a digit is neither space nor unit
NumUnitAt(s, i, units) ==
  LET j == RunEnd(s, i, Digits)
      k == RunEnd(s, j + 1, WhiteSpace)
  IN  IF s[i] \in Digits /\ k + 1 <= Len(s) /\ s[k + 1] \in units
      THEN [ok |-> TRUE, num |-> SubSeq(s, i, j), unit |-> s[k + 1],
            start |-> i, numEnd |-> j, end |-> k + 1]
      ELSE [ok |-> FALSE, num |-> <<>>, unit |-> "", start |-> i,
            numEnd |-> i, end |-> i]

\* re.findall(r'\b(\d+)\s*(...years)', llm_response)
RECURSIVE FindDurations(_, _)
FindDurations(s, i) ==
  IF i > Len(s) THEN <<>>
  ELSE LET m == NumUnitAt(s, i, DurationUnits)
       IN  IF m.ok /\ WordBoundaryBefore(s, i)
           THEN <<m>> \o FindDurations(s, m.end + 1)
           ELSE FindDurations(s, i + 1)

\* re.findall(salary_pattern, llm_response): no \b in this pattern
RECURSIVE FindSalaries(_, _)
FindSalaries(s, i) ==
  IF i > Len(s) THEN <<>>
  ELSE LET m == NumUnitAt(s, i, CurrencyUnits)
       IN  IF m.ok
           THEN <<m>> \o FindSalaries(s, m.end + 1)
           ELSE FindSalaries(s, i + 1)

InExperienceRange_NoBound(n) == TRUE

\* "if 0 < num_int < 50"
InExperienceRange(n) == 0 < n /\ n < 50

SalaryTolerance == 100

Abs(x) == IF x < 0 THEN -x ELSE x

SalaryFlagged(amount, expected) ==
  amount # expected /\ Abs(amount - expected) > SalaryTolerance

\* f"{num} {unit}": the number, ONE space, the unit
NumSpaceUnit(num, unit) == num \o <<" ">> \o <<unit>>

\* the body of verify_response after the two re.findall calls
VerifyMatches(c, s, nums, sals) ==
  LET badN == {i \in 1..Len(nums) :
                 /\ InExperienceRange(StrToInt(nums[i].num))
                 /\ StrToInt(nums[i].num) # c.years_of_experience}
      badS == {i \in 1..Len(sals) :
                 SalaryFlagged(StrToInt(sals[i].num), c.expected_salary)}
  IN  IF badN # {}
      THEN LET m == nums[Min(badN)]
           IN  [valid |-> FALSE,
                error |-> Some([kind |-> "experience", stated |-> StrToInt(m.num),
                                db |-> c.years_of_experience]),
                corrected |-> Some(StrReplace(s, NumSpaceUnit(m.num, m.unit),
                                 NumSpaceUnit(IntToStr(c.years_of_experience), m.unit)))]
      ELSE IF badS # {}
      THEN LET m == sals[Min(badS)]
           IN  [valid |-> FALSE,
                error |-> Some([kind |-> "salary", stated |-> StrToInt(m.num),
                                db |-> c.expected_salary]),
                corrected |-> Some(StrReplace(s, NumSpaceUnit(m.num, m.unit),
                                 NumSpaceUnit(IntToStr(c.expected_salary), m.unit)))]
      ELSE [valid |-> TRUE, error |-> None, corrected |-> None]

\* FactVerifier.verify_response: (is_valid, error_message, corrected_response)
VerifyResponse(c, s) ==
  The({VerifyMatches(c, s, nums, sals) :
         nums \in {FindDurations(s, 1)}, sals \in {FindSalaries(s, 1)}})

(* -------------------------- CandidateContract ------------------------- *)

NoHash == <<>>

\* hashlib.sha256(text.encode()).hexdigest()[:12], idealised as free of
\* collisions: two digests are equal exactly when the hashed texts are
Sha256Hex12(text) == <<"sha256", text>>

\* json.dumps(data, sort_keys=True) of compute_hash: the four keys, sorted
HashedFieldsAtConstruction(c) ==
  << <<"candidate_id", c.candidate_id>>,
     <<"expected_salary", c.expected_salary>>,
     <<"has_field_experience", c.has_field_experience>>,
     <<"years_of_experience", c.years_of_experience>> >>

HashedFieldsAtVerify_NoSalary(c) ==
  << <<"academic_status", c.academic_status>>,
     <<"can_start_immediately", c.can_start_immediately>>,
     <<"candidate_id", c.candidate_id>>,
     <<"full_name", c.full_name>>,
     <<"has_field_experience", c.has_field_experience>>,
     <<"interview_id", c.interview_id>>,
     <<"proximity_to_branch", c.proximity_to_branch>>,
     <<"target_role", c.target_role>>,
     <<"years_of_experience", c.years_of_experience>> >>

\* json.dumps(temp_dict, sort_keys=True) of verify_integrity: self.dict()
\* without contract_hash and contract_created_at, the keys sorted
HashedFieldsAtVerify(c) ==
  << <<"academic_status", c.academic_status>>,
     <<"can_start_immediately", c.can_start_immediately>>,
     <<"candidate_id", c.candidate_id>>,
     <<"expected_salary", c.expected_salary>>,
     <<"full_name", c.full_name>>,
     <<"has_field_experience", c.has_field_experience>>,
     <<"interview_id", c.interview_id>>,
     <<"proximity_to_branch", c.proximity_to_branch>>,
     <<"target_role", c.target_role>>,
     <<"years_of_experience", c.years_of_experience>> >>

\* the validator of contract_hash: "if not v": compute, else keep v
ComputeHash(v, values) ==
  IF v = NoHash THEN Sha256Hex12(HashedFieldsAtConstruction(values)) ELSE v

\* CandidateContract.verify_integrity
VerifyIntegrity(c) == c.contract_hash = Sha256Hex12(HashedFieldsAtVerify(c))

\* CandidateContract(...): the fields, then the validated contract_hash
NewContract(fields, hashArg) ==
  [candidate_id |-> fields.candidate_id,
   interview_id |-> fields.interview_id,
   full_name |-> fields.full_name,
   target_role |-> fields.target_role,
   years_of_experience |-> fields.years_of_experience,
   expected_salary |-> fields.expected_salary,
   has_field_experience |-> fields.has_field_experience,
   proximity_to_branch |-> fields.proximity_to_branch,
   can_start_immediately |-> fields.can_start_immediately,
   academic_status |-> fields.academic_status,
   contract_hash |-> ComputeHash(hashArg, fields)]

\* the candidates rows of the datastore that the model draws from
YearsValues == {3, 5}
SalaryValues == {300}

CandidateRows ==
  [candidate_id : {"cand1"}, interview_id : {"int1"}, full_name : {"name"},
   target_role : {"baker"}, years_of_experience : YearsValues,
   expected_salary : SalaryValues, has_field_experience : {TRUE},
   proximity_to_branch : {"null"}, can_start_immediately : {"null"},
   academic_status : {"null"}]

\* result.data when the candidates table has no row for the candidate
NoRow == [found |-> FALSE]

\* rows with a required column null (full_name, target_role)
MalformedRows ==
  UNION { {[r EXCEPT !.full_name = "null"], [r EXCEPT !.target_role = "null"]} :
          r \in {r \in CandidateRows : r.years_of_experience = 5} }

DatastoreRows == CandidateRows \cup MalformedRows \cup {NoRow}

\* load_contract raises: "if not result.data", or the validation of a
\* required str field that is None
LoadRaises(r) ==
  \/ r = NoRow
  \/ r.full_name = "null"
  \/ r.target_role = "null"

\* the value of the contract while there is none
NoContract ==
  [candidate_id |-> "none", interview_id |-> "none", full_name |-> "none",
   target_role |-> "none", years_of_experience |-> 0, expected_salary |-> 0,
   has_field_experience |-> FALSE, proximity_to_branch |-> "null",
   can_start_immediately |-> "null", academic_status |-> "null",
   contract_hash |-> NoHash]

\* FactContractLoader.load_contract on the row r: what it raises or returns
LoadContract(r) ==
  IF LoadRaises(r)
  THEN {[raised |-> TRUE, contract |-> NoContract]}
  ELSE {[raised |-> FALSE, contract |-> NewContract(r, hashArg)] :
          hashArg \in {NoHash, Sha256Hex12(HashedFieldsAtVerify(r))}}

(* --------------------------- PersonaEnforcer -------------------------- *)

\* \b after position i, where s[i] is a word character
WordBoundaryAfter(s, i) == i = Len(s) \/ ~IsWordChar(s[i + 1])

\* the matches of ENGLISH_PATTERNS: each pattern is \b...\b, so an English
\* word is found only when it stands between word boundaries
EnglishMatches(s) ==
  {i \in 1..Len(s) :
     s[i] = "e" /\ WordBoundaryBefore(s, i) /\ WordBoundaryAfter(s, i)}

\* PersonaEnforcer._detect_english -> has_english.  The langdetect fallback
\* runs on the text without Arabic letters and white space; with the symbols
\* of this model it can find English only where a pattern has found it.
DetectEnglish(s) == EnglishMatches(s) # {}

\* MSA_TO_JORDANIAN, in the order of the dict: a formal word and its
\* replacement ("T" is a word whose replacement "I","T" ends with the word)
MsaToJordanian ==
  << [msa |-> <<"M">>, jordanian |-> <<"S">>],
     [msa |-> <<"T">>, jordanian |-> <<"I", "T">>] >>

\* PersonaEnforcer._convert_to_jordanian: one str.replace per table entry
RECURSIVE ConvertFrom(_, _)
ConvertFrom(s, k) ==
  IF k > Len(MsaToJordanian) THEN s
  ELSE ConvertFrom(StrReplace(s, MsaToJordanian[k].msa,
                              MsaToJordanian[k].jordanian), k + 1)

ConvertToJordanian(s) == ConvertFrom(s, 1)

\* PersonaEnforcer.enforce(text, strict_mode): (is_valid, error, corrected)
Enforce(text, strict_mode) ==
  IF DetectEnglish(text) /\ strict_mode
  THEN [valid |-> FALSE, error |-> "English detected", corrected |-> text]
  ELSE [valid |-> TRUE, error |-> "", corrected |-> ConvertToJordanian(text)]

\* CandidateLanguageMonitor.check_candidate_input -> used_english
UsedEnglish(user_input) == Cardinality(EnglishMatches(user_input)) >= 2

(* ------------------------------ the lists ------------------------------ *)
(* A Python list is kept in run-length form: a sequence of items, an item  *)
(* being one element (atom) or rep copies of a list (body), one after the  *)
(* other.  The list an item sequence stands for is its expansion; LenL,    *)
(* CountStage, ElemSet and IsPrefixL are the length, the count, the set of *)
(* elements and the prefix order of the expanded lists.                    *)

Atom(v) == [atom |-> TRUE, rep |-> 1, body |-> <<>>, val |-> <<v>>]
Rep(n, L) == [atom |-> FALSE, rep |-> n, body |-> L, val |-> <<>>]

EmptyList == <<>>

RECURSIVE LenL(_)
LenL(L) ==
  IF L = <<>> THEN 0
  ELSE (IF Head(L).atom THEN 1 ELSE Head(L).rep * LenL(Head(L).body))
       + LenL(Tail(L))

ListAppend_Front(L, v) == <<Atom(v)>> \o L

\* list.append(v)
ListAppend(L, v) == Append(L, Atom(v))

\* L + L
Twice(L) ==
  IF L = <<>> THEN <<>>
  ELSE IF Len(L) = 1 /\ ~L[1].atom THEN <<Rep(2 * L[1].rep, L[1].body)>>
  ELSE <<Rep(2, L)>>

\* operator.add(current, update), the reducer of the three Annotated lists
OperatorAdd(current, update) ==
  IF update = current THEN Twice(current) ELSE current \o update

\* the first copy of a leading repetition written out
Unroll(L) ==
  LET h == Head(L)
  IN  h.body \o (IF h.rep > 1 THEN <<Rep(h.rep - 1, h.body)>> ELSE <<>>)
      \o Tail(L)

\* the expansion of A is a prefix of the expansion of B
RECURSIVE IsPrefixL(_, _)
IsPrefixL(A, B) ==
  IF A = <<>> THEN TRUE
  ELSE IF B = <<>> THEN LenL(A) = 0
  ELSE LET a == Head(A)
           b == Head(B)
       IN  IF a.atom /\ b.atom
           THEN a.val = b.val /\ IsPrefixL(Tail(A), Tail(B))
           ELSE IF ~a.atom /\ ~b.atom /\ a.body = b.body
           THEN IF a.rep = b.rep THEN IsPrefixL(Tail(A), Tail(B))
                ELSE IF a.rep < b.rep
                THEN IsPrefixL(Tail(A), <<Rep(b.rep - a.rep, b.body)>> \o Tail(B))
                ELSE IsPrefixL(<<Rep(a.rep - b.rep, a.body)>> \o Tail(A), Tail(B))
           ELSE IF ~b.atom THEN IsPrefixL(A, Unroll(B))
           ELSE IsPrefixL(Unroll(A), B)

\* the set of the elements of the list
RECURSIVE ElemSet(_)
ElemSet(L) ==
  IF L = <<>> THEN {}
  ELSE (IF Head(L).atom THEN {Head(L).val[1]} ELSE ElemSet(Head(L).body))
       \cup ElemSet(Tail(L))

\* list[-1] of a non-empty list
RECURSIVE LastElem(_)
LastElem(L) ==
  IF L[Len(L)].atom THEN L[Len(L)].val[1] ELSE LastElem(L[Len(L)].body)

(* ---------------------------- InterviewAgent --------------------------- *)

NoStage == "none"

\* InterviewAgent.STAGES
STAGES ==
  [opening |-> [min_questions |-> 1, next_stage |-> "experience_probe"],
   experience_probe |-> [min_questions |-> 3, next_stage |-> "credibility_check"],
   credibility_check |-> [min_questions |-> 2, next_stage |-> "closing"],
   closing |-> [min_questions |-> 1, next_stage |-> NoStage]]

StageNames == DOMAIN STAGES

\* f"{stage}_q{len(questions_asked)}"
QuestionTag(stage, n) == [stage |-> stage, q |-> n]

\* q.startswith(current_stage): no stage name is the start of another tag
StartsWith(tag, stage) == tag.stage = stage

\* len([q for q in questions_asked if q.startswith(current_stage)])
RECURSIVE CountStage(_, _)
CountStage(L, stage) ==
  IF L = <<>> THEN 0
  ELSE (IF Head(L).atom
        THEN (IF StartsWith(Head(L).val[1], stage) THEN 1 ELSE 0)
        ELSE Head(L).rep * CountStage(Head(L).body, stage))
       + CountStage(Tail(L), stage)

\* str.strip()
Strip(s) ==
  IF \A i \in 1..Len(s) : s[i] \in WhiteSpace THEN <<>>
  ELSE LET lo == Min({i \in 1..Len(s) : s[i] \notin WhiteSpace})
           hi == CHOOSE i \in 1..Len(s) :
                   s[i] \notin WhiteSpace
                   /\ \A j \in (i + 1)..Len(s) : s[j] \in WhiteSpace
       IN  SubSeq(s, lo, hi)

\* a node returned `returned`; `channels` are the channel values when it
\* returns (a list a node changed in place is changed in the channel too).
\* The three Annotated[..., operator.add] keys are reduced, the others are
\* overwritten.
WriteBack(channels, returned) ==
  [returned EXCEPT
     !.questions_asked = OperatorAdd(channels.questions_asked, @),
     !.conversation_history = OperatorAdd(channels.conversation_history, @),
     !.detected_inconsistencies = OperatorAdd(channels.detected_inconsistencies, @)]

\* app.invoke(current_state): the input is written through the reducers
\* onto the empty channels
GraphInput(current_state) ==
  [current_state EXCEPT
     !.questions_asked = OperatorAdd(EmptyList, @),
     !.conversation_history = OperatorAdd(EmptyList, @),
     !.detected_inconsistencies = OperatorAdd(EmptyList, @)]

\* _load_context_node, when the integrity check passes: "return state"
LoadContextNode_Rehash(ch) ==
  WriteBack(ch, [ch EXCEPT !.contract.contract_hash =
                   Sha256Hex12(HashedFieldsAtConstruction(ch.contract))])

\* _load_context_node, the contract having passed verify_integrity
LoadContextNode(ch) == WriteBack(ch, ch)

\* _generate_response_node; llm_output is what the completion service gave
GenerateResponseNode(ch, llm_output) ==
  The({WriteBack(ch, st) :
         st \in {[ch EXCEPT !.latest_system_response = Strip(llm_output)]}})

\* _verify_facts_node, r being what verify_response returned
VerifyFactsUpdate(ch, r) ==
  IF ~r.valid
  THEN [ch EXCEPT
          !.latest_system_response = r.corrected.val,
          !.detected_inconsistencies =
             ListAppend(@, [type |-> "llm_hallucination",
                            turn |-> ch.turn_count,
                            original |-> ch.latest_system_response,
                            corrected |-> r.corrected.val,
                            error |-> r.error.val])]
  ELSE ch

\* _verify_facts_node: the list it appends to is the channel's own list
VerifyFactsNode(c, ch) ==
  The({WriteBack(st, st) :
         st \in {VerifyFactsUpdate(ch, r) :
                   r \in {VerifyResponse(c, ch.latest_system_response)}}})

\* _enforce_persona_node, r being what enforce returned
EnforcePersonaUpdate(ch, r) ==
  IF r.corrected # ch.latest_system_response
  THEN [ch EXCEPT !.latest_system_response = r.corrected]
  ELSE ch

\* _enforce_persona_node: enforce is called with strict_mode=False
EnforcePersonaNode(ch) ==
  The({WriteBack(ch, st) :
         st \in {EnforcePersonaUpdate(ch, r) :
                   r \in {Enforce(ch.latest_system_response, FALSE)}}})

MeetsMinimum_NoMinimum(n, m) == n >= 0

\* len(stage_questions) >= stage_config["min_questions"]
MeetsMinimum(n, m) == n >= m

NextStage_Skip(stage) ==
  IF stage = "opening" THEN "credibility_check" ELSE STAGES[stage].next_stage

\* stage_config["next_stage"]
NextStage(stage) == STAGES[stage].next_stage

\* the stage _check_stage_transition_node leaves in the state
StageAfterCheck(stage, questions_asked) ==
  IF /\ MeetsMinimum(CountStage(questions_asked, stage), STAGES[stage].min_questions)
     /\ NextStage(stage) # NoStage
  THEN NextStage(stage)
  ELSE stage

\* _check_stage_transition_node
CheckStageTransitionNode(ch) ==
  The({WriteBack(ch, st) :
         st \in {[ch EXCEPT
                    !.current_stage = StageAfterCheck(@, ch.questions_asked)]}})

\* process_turn up to the workflow: the caller's dict, changed in place
StartTurn(current_state, user_input) ==
  [current_state EXCEPT
     !.latest_user_input = user_input,
     !.turn_count = @ + 1,
     !.conversation_history =
        ListAppend(@, [role |-> "user", content |-> user_input])]

(* The workflow runs its five nodes one after the other.  Each definition  *)
(* below is the one-element set of the channel values after a node, so     *)
(* that a node's result is computed once and handed to the next node.      *)

\* app.invoke(start), after load_context; start is the caller's dict as
\* process_turn leaves it in front of the workflow
AfterLoadContext(start) ==
  {LoadContextNode(ch) : ch \in {GraphInput(start)}}

AfterGenerateResponse(start, llm_output) ==
  {GenerateResponseNode(ch, llm_output) : ch \in AfterLoadContext(start)}

AfterVerifyFacts_Skipped(c, start, llm_output) ==
  AfterGenerateResponse(start, llm_output)

AfterVerifyFacts(c, start, llm_output) ==
  {VerifyFactsNode(c, ch) : ch \in AfterGenerateResponse(start, llm_output)}

AfterEnforcePersona(c, start, llm_output) ==
  {EnforcePersonaNode(ch) : ch \in AfterVerifyFacts(c, start, llm_output)}

AfterCheckStageTransition(c, start, llm_output) ==
  {CheckStageTransitionNode(ch) : ch \in AfterEnforcePersona(c, start, llm_output)}

\* process_turn after the workflow: "Add to history", "Add question tracking"
FinalState(out) ==
  [out EXCEPT
     !.conversation_history =
        ListAppend(@, [role |-> "assistant",
                       content |-> out.latest_system_response]),
     !.questions_asked =
        ListAppend(@, QuestionTag(out.current_stage, LenL(@)))]

\* process_turn(contract, user_input, current_state), as a one-element set:
\* raised = the workflow raised (contract integrity); current_state = the
\* caller's dict after the call; final_state = the returned state.  The
\* contract argument is used only to build a state when none is given; the
\* nodes read state["contract"].
ProcessTurn(c, current_state, user_input, llm_output) ==
  UNION {
    IF ~VerifyIntegrity(start.contract)
    THEN {[raised |-> TRUE, current_state |-> start, final_state |-> start]}
    ELSE {[raised |-> FALSE, current_state |-> start,
           final_state |-> FinalState(out)] :
            out \in AfterCheckStageTransition(start.contract, start, llm_output)}
    : start \in {StartTurn(current_state, user_input)} }

(* ----------------------- what a process_turn did ---------------------- *)

NoCall ==
  [called |-> FALSE, raised |-> FALSE, completion |-> <<>>, llm_calls |-> 0,
   verifier_valid |-> TRUE, enforcer_input |-> <<>>, enforcer_valid |-> TRUE,
   stage_before |-> "opening", turns_tagged |-> 0, advanced |-> FALSE,
   history_before |-> 0, inconsistencies_before |-> 0, failure |-> "none",
   turn_count_before |-> 0, questions_at_check |-> <<>>,
   user_input |-> <<"none">>, tag |-> QuestionTag(NoStage, 0)]

\* the record of a call from the channel values after generate_response
\* (gen), after verify_facts (ver) and after enforce_persona (chk)
LogOf(c, current_state, gen, ver, chk) ==
  [called |-> TRUE, raised |-> FALSE,
   completion |-> gen.latest_system_response,
   llm_calls |-> 1,
   verifier_valid |-> VerifyResponse(c, gen.latest_system_response).valid,
   enforcer_input |-> ver.latest_system_response,
   enforcer_valid |-> Enforce(ver.latest_system_response, FALSE).valid,
   stage_before |-> chk.current_stage,
   turns_tagged |->
      Cardinality({q \in ElemSet(chk.questions_asked) :
                     StartsWith(q, chk.current_stage)}),
   advanced |->
      StageAfterCheck(chk.current_stage, chk.questions_asked) # chk.current_stage,
   history_before |-> LenL(current_state.conversation_history),
   inconsistencies_before |-> LenL(current_state.detected_inconsistencies),
   failure |-> "none",
   turn_count_before |-> current_state.turn_count,
   questions_at_check |-> chk.questions_asked,
   user_input |-> gen.latest_user_input,
   tag |-> The({LastElem(FinalState(out).questions_asked) :
                  out \in {CheckStageTransitionNode(chk)}})]

\* the record of one process_turn call on current_state (a one-element set)
TurnLog(c, current_state, user_input, llm_output) ==
  IF ~VerifyIntegrity(current_state.contract)
  THEN {[NoCall EXCEPT
           !.called = TRUE, !.raised = TRUE, !.failure = "integrity",
           !.history_before = LenL(current_state.conversation_history),
           !.inconsistencies_before =
              LenL(current_state.detected_inconsistencies),
           !.turn_count_before = current_state.turn_count,
           !.stage_before = current_state.current_stage,
           !.user_input = user_input]}
  ELSE UNION { UNION { {LogOf(current_state.contract, current_state, gen, ver, chk) :
                          chk \in {EnforcePersonaNode(ver)}} :
                       ver \in {VerifyFactsNode(current_state.contract, gen)}} :
               gen \in AfterGenerateResponse(
                         StartTurn(current_state, user_input), llm_output)}

(* -------------------------- CredibilityScorer -------------------------- *)

(* The text the completion service returns to the scorer is a sequence of  *)
(* symbols: "fence_json" and "fence" (the code fences that open and close  *)
(* a fenced block, with and without the word json), " " (white space),     *)
(* "x" (a                                                                  *)
(* word that is no JSON), and the names of JSON documents, each standing   *)
(* for the text of one JSON value.                                         *)

FenceJson == "fence_json"
Fence == "fence"

AssessmentKeys ==
  {"credibility_score", "credibility_level", "inconsistencies_found",
   "consistency_areas", "red_flags", "recommendation"}

\* a JSON object with the keys of the assessment the prompt asks for
Assessment(score, level, areas, flags, recommendation) ==
  [json |-> "object", keys |-> AssessmentKeys,
   credibility_score |-> score, credibility_level |-> level,
   inconsistencies_found |-> areas, consistency_areas |-> <<>>,
   red_flags |-> flags, recommendation |-> recommendation]

\* a JSON value that is no assessment: an object without keys, or an array
OtherJson(type) ==
  [json |-> type, keys |-> {},
   credibility_score |-> 0, credibility_level |-> "",
   inconsistencies_found |-> <<>>, consistency_areas |-> <<>>,
   red_flags |-> <<>>, recommendation |-> ""]

\* what json.loads gives for each JSON document the service may write
JsonDocs ==
  [ok85  |-> Assessment(85, "high", <<"years_of_experience">>, <<>>, "trusted"),
   ok0   |-> Assessment(0, "low", <<"expected_salary">>, <<"flag">>, "rejected"),
   ok100 |-> Assessment(100, "high", <<>>, <<>>, "trusted"),
   over  |-> Assessment(150, "high", <<>>, <<>>, "trusted"),
   neg   |-> Assessment(0 - 5, "low", <<>>, <<"flag">>, "rejected"),
   ghost |-> Assessment(85, "high", <<"favourite_colour">>, <<>>, "trusted"),
   empty |-> OtherJson("object"),
   list  |-> OtherJson("array")]

\* _get_default_credibility_score
DefaultCredibilityScore ==
  Assessment(50, "undetermined", <<>>, <<"automatic scoring failed">>,
             "needs manual review")

\* "Clean response": the two branches on startswith, then strip
CleanResponse(response_text) ==
  IF response_text # <<>> /\ Head(response_text) = FenceJson
  THEN Strip(StrReplace(StrReplace(response_text, <<FenceJson>>, <<>>),
                        <<Fence>>, <<>>))
  ELSE IF response_text # <<>> /\ Head(response_text) = Fence
  THEN Strip(StrReplace(response_text, <<Fence>>, <<>>))
  ELSE response_text

\* json.loads(response_text): raises unless the text is one JSON value
JsonLoads(response_text) ==
  IF Len(response_text) = 1 /\ response_text[1] \in DOMAIN JsonDocs
  THEN [ok |-> TRUE, value |-> JsonDocs[response_text[1]]]
  ELSE [ok |-> FALSE, value |-> DefaultCredibilityScore]

\* the try block of score_credibility on the outcome of the completion call
\* (failed = the call raised); the except branch returns the default
ScoreCredibility(resp) ==
  IF resp.failed THEN DefaultCredibilityScore
  ELSE The({IF parsed.ok THEN parsed.value ELSE DefaultCredibilityScore :
              parsed \in {JsonLoads(CleanResponse(Strip(resp.text)))}})

\* handle_end_of_interview after score_credibility returned credibility_data:
\* credibility_data.get(...) raises on a value that is no dict, the handler
\* answers 500 and the scores row is not written
EndOfInterviewResult(credibility_data) ==
  IF credibility_data.json = "object"
  THEN [called |-> TRUE, status |-> 200, saved |-> TRUE,
        credibility |-> credibility_data]
  ELSE [called |-> TRUE, status |-> 500, saved |-> FALSE,
        credibility |-> credibility_data]

NoScore ==
  [called |-> FALSE, status |-> 0, saved |-> FALSE,
   credibility |-> DefaultCredibilityScore]

NoResponse == [failed |-> TRUE, text |-> <<>>]

(* ---------------------- InterviewWebSocketHandler ---------------------- *)

StartInput == <<"[START_INTERVIEW]">>
SystemNote == <<" ", "n">>

\* what the speech-to-text service may return
Transcripts == { <<>>, <<"a">>, <<"e", " ", "e">> }

\* what the completion service may return
Completions ==
  { <<"S", " ", "a">>,
    <<"a", " ", "3", "Y">>,
    <<"e", " ", "e">>,
    <<"M", " ", "3", " ", "Y">> }

NoMessage == [type |-> "none", text |-> <<>>, stage |-> NoStage, turn |-> 0,
              inconsistencies_count |-> 0]

AudioMessage(text, stage, turn, count) ==
  [type |-> "audio", text |-> text, stage |-> stage, turn |-> turn,
   inconsistencies_count |-> count]

ErrorMessage ==
  [type |-> "error", text |-> <<"Contract integrity check failed">>,
   stage |-> NoStage, turn |-> 0, inconsistencies_count |-> 0]

\* {"type": "error", "message": str(e)} for the exception of load_contract
LoadErrorMessage(r) ==
  [type |-> "error",
   text |-> IF r = NoRow THEN <<"Candidate not found in database">>
            ELSE <<"validation error for CandidateContract">>,
   stage |-> NoStage, turn |-> 0, inconsistencies_count |-> 0]

AfterLoad_Continue(raised) == "opening"

\* where handle_interview goes after load_contract: on to the opening
\* message, or to "except Exception"
AfterLoad(raised) == IF raised THEN "failed" ELSE "opening"

\* {"type": "error", "message": str(e)} for an exception a service raised
ServiceErrorMessage ==
  [type |-> "error", text |-> <<"service call failed">>,
   stage |-> NoStage, turn |-> 0, inconsistencies_count |-> 0]

\* the interview_state dict handle_interview builds
InitialState(c) ==
  [contract |-> c,
   current_stage |-> "opening", questions_asked |-> EmptyList,
   conversation_history |-> EmptyList, detected_inconsistencies |-> EmptyList,
   latest_user_input |-> <<>>, latest_system_response |-> <<>>,
   turn_count |-> 0]

\* the row _finalize_interview writes
FinalRecord(state) ==
  [status |-> "completed",
   full_transcript |-> state.conversation_history,
   detected_inconsistencies |-> state.detected_inconsistencies,
   questions_asked |-> state.questions_asked]

\* _finalize_interview(interview_id, state): the datastore after the call;
\* a failed write is caught and logged, nothing is written
PersistedAfterFinalize(p, state, write_ok) ==
  IF write_ok THEN Append(p, FinalRecord(state)) ELSE p

\* what a _finalize_interview call came to
FinalizeOutcome(write_ok) == IF write_ok THEN "saved" ELSE "failed"

PersistedOnError_Finalize(p, state) == Append(p, FinalRecord(state))

\* "except Exception": the error is sent, _finalize_interview is not called
PersistedOnError(p, state) == p

\* the places where handle_interview has left the conversation
Ended == {"completed", "ended_by_client", "disconnected", "failed"}

NoVerify ==
  [called |-> FALSE,
   result |-> [valid |-> TRUE, error |-> None, corrected |-> None]]

\* no write round Config.frozen is part of a session
NoTamperResult == [called |-> FALSE, result |-> TRUE]

NoTamper == tcontract = contract /\ tout = NoTamperResult

\* the specifications of one session leave the handler's other connections
\* out
NoHandler == conn = <<>> /\ sessions = <<>> /\ saved = {}

\* PersonaEnforcer.enforce not called
NoPersonaCall ==
  [text |-> <<>>, strict_mode |-> TRUE, called |-> FALSE,
   result |-> [valid |-> TRUE, error |-> "", corrected |-> <<>>]]

\* no interview page is open
NoPage == [open |-> FALSE]

\* the specifications of the handler leave single enforce calls and the
\* candidate's page out
NoAux == pcall = NoPersonaCall /\ page = NoPage

\* handle_interview after websocket.accept(), in front of load_contract.
\* The contract is built once: by the loader (no contract_hash given, the
\* validator computes it) or with a contract_hash given (the validator
\* keeps it); when the loader raises there is no contract.  The state is
\* the one handle_interview builds and registers once the contract is there.
Init ==
  /\ row \in DatastoreRows
  /\ contract \in {o.contract : o \in LoadContract(row)}
  /\ istate = InitialState(contract)
  /\ registered = InitialState(contract)
  /\ active = FALSE
  /\ alias = TRUE
  /\ pc = "loading"
  /\ NoTamper
  /\ NoHandler
  /\ NoAux
  /\ outbox = NoMessage
  /\ persisted = <<>>
  /\ finalized = <<>>
  /\ last = NoCall
  /\ vin = <<>>
  /\ vcontract = contract
  /\ vout = NoVerify
  /\ sresp = NoResponse
  /\ sout = NoScore

verifyVars == <<vin, vcontract, vout>>

scoreVars == <<sresp, sout>>

tamperVars == <<tcontract, tout>>

handlerVars == <<conn, sessions, saved>>

auxVars == <<pcall, page>>

\* handle_interview STEP 1 and the registration in active_sessions; an
\* exception of load_contract reaches "except Exception" and "finally"
HandleInterviewStart ==
  /\ pc = "loading"
  /\ \E raised \in {LoadRaises(row)} :
       /\ pc' = AfterLoad(raised)
       /\ active' = ~raised
       /\ outbox' = IF raised THEN LoadErrorMessage(row) ELSE outbox
  /\ UNCHANGED <<contract, istate, registered, alias, persisted, finalized,
                 last, row, verifyVars, scoreVars, tamperVars, handlerVars, auxVars>>

\* _send_opening_message: the state returned by process_turn is used for the
\* greeting only; interview_state keeps what process_turn changed in place
SendOpening ==
  /\ pc = "opening"
  /\ \E llm \in Completions :
       \E r \in ProcessTurn(contract, istate, StartInput, llm) :
           /\ last' \in TurnLog(contract, istate, StartInput, llm)
           /\ istate' = r.current_state
           /\ registered' = r.current_state
           /\ IF r.raised
              THEN /\ outbox' = ErrorMessage
                   /\ pc' = "failed"
                   /\ active' = FALSE
                   /\ persisted' = PersistedOnError(persisted, r.current_state)
              ELSE /\ outbox' = AudioMessage(
                                  LastElem(r.final_state.conversation_history).content,
                                  "opening", 1, 0)
                   /\ pc' = "loop"
                   /\ active' = active
                   /\ persisted' = persisted
  /\ UNCHANGED <<contract, alias, finalized, row, verifyVars, scoreVars,
                 tamperVars, handlerVars, auxVars>>

\* "Check if interview complete"
InterviewComplete(state) ==
  state.current_stage = "closing" /\ CountStage(state.questions_asked, "closing") >= 1

\* one {"type": "audio"} message of the conversation loop, every service
\* answering
AudioTurn ==
  /\ pc = "loop"
  /\ \E transcript \in Transcripts, llm \in Completions, write_ok \in BOOLEAN :
       \E user_input \in {IF UsedEnglish(transcript)
                           THEN transcript \o SystemNote ELSE transcript} :
       \E r \in ProcessTurn(contract, istate, user_input, llm) :
           /\ last' \in TurnLog(contract, istate, user_input, llm)
           /\ registered' = IF alias THEN r.current_state ELSE registered
           /\ IF r.raised
              THEN /\ istate' = r.current_state
                   /\ alias' = alias
                   /\ outbox' = ErrorMessage
                   /\ pc' = "failed"
                   /\ active' = FALSE
                   /\ persisted' = PersistedOnError(persisted, r.current_state)
                   /\ finalized' = finalized
              ELSE /\ istate' = r.final_state
                   /\ alias' = FALSE
                   /\ outbox' = AudioMessage(
                                  LastElem(r.final_state.conversation_history).content,
                                  r.final_state.current_stage,
                                  r.final_state.turn_count,
                                  LenL(r.final_state.detected_inconsistencies))
                   /\ IF InterviewComplete(r.final_state)
                      THEN /\ persisted' = PersistedAfterFinalize(
                                             persisted, r.final_state, write_ok)
                           /\ finalized' = Append(finalized, FinalizeOutcome(write_ok))
                           /\ pc' = "completed"
                           /\ active' = FALSE
                      ELSE /\ persisted' = persisted
                           /\ finalized' = finalized
                           /\ pc' = "loop"
                           /\ active' = active
  /\ UNCHANGED <<contract, row, verifyVars, scoreVars, tamperVars, handlerVars, auxVars>>

\* a turn in which a service raises (an error or a timeout): the speech-to-
\* text call in front of process_turn, the completion call inside the
\* workflow, or the text-to-speech call after process_turn has returned.
\* The exception reaches "except Exception" of handle_interview.
ServiceFailure ==
  /\ pc \in {"opening", "loop"}
  /\ VerifyIntegrity(istate.contract)
  /\ \E which \in {"stt", "completion", "tts"},
        transcript \in Transcripts, llm \in Completions :
       \E user_input \in {IF pc = "opening" THEN StartInput
                           ELSE IF UsedEnglish(transcript)
                           THEN transcript \o SystemNote ELSE transcript} :
       \E r \in ProcessTurn(contract, istate, user_input, llm) :
       \E log \in TurnLog(contract, istate, user_input, llm) :
         /\ which = "stt" => pc = "loop"
         /\ istate' = IF which = "stt" THEN istate
                      ELSE IF which = "completion" \/ pc = "opening"
                      THEN r.current_state
                      ELSE r.final_state
         /\ registered' = IF which # "stt" /\ alias THEN r.current_state
                          ELSE registered
         /\ alias' = IF which = "tts" /\ pc = "loop" THEN FALSE ELSE alias
         /\ last' = IF which = "stt" THEN [NoCall EXCEPT !.failure = "stt"]
                    ELSE IF which = "completion"
                    THEN [NoCall EXCEPT
                            !.called = TRUE, !.raised = TRUE, !.llm_calls = 1,
                            !.failure = "completion",
                            !.history_before = log.history_before,
                            !.inconsistencies_before = log.inconsistencies_before,
                            !.turn_count_before = log.turn_count_before,
                            !.user_input = log.user_input]
                    ELSE [log EXCEPT !.failure = "tts"]
         /\ persisted' = PersistedOnError(persisted, istate')
  /\ outbox' = ServiceErrorMessage
  /\ pc' = "failed"
  /\ active' = FALSE
  /\ UNCHANGED <<contract, finalized, row, verifyVars, scoreVars, tamperVars,
                 handlerVars, auxVars>>

\* a {"type": "end_interview"} message
EndInterview ==
  /\ pc = "loop"
  /\ \E write_ok \in BOOLEAN :
       /\ persisted' = PersistedAfterFinalize(persisted, istate, write_ok)
       /\ finalized' = Append(finalized, FinalizeOutcome(write_ok))
  /\ pc' = "ended_by_client"
  /\ active' = FALSE
  /\ UNCHANGED <<contract, istate, registered, alias, outbox, last, row,
                 verifyVars, scoreVars, tamperVars, handlerVars, auxVars>>

\* WebSocketDisconnect while waiting for a message: the state finalized is
\* the dict stored in active_sessions
Disconnect ==
  /\ pc = "loop"
  /\ \E write_ok \in BOOLEAN :
       IF active
       THEN /\ persisted' = PersistedAfterFinalize(persisted, registered, write_ok)
            /\ finalized' = Append(finalized, FinalizeOutcome(write_ok))
       ELSE /\ persisted' = persisted
            /\ finalized' = finalized
  /\ pc' = "disconnected"
  /\ active' = FALSE
  /\ UNCHANGED <<contract, istate, registered, alias, outbox, last, row,
                 verifyVars, scoreVars, tamperVars, handlerVars, auxVars>>

Next ==
  \/ HandleInterviewStart
  \/ SendOpening \/ AudioTurn \/ ServiceFailure \/ EndInterview \/ Disconnect

vars == <<contract, istate, registered, active, alias, pc, outbox, persisted,
          finalized, last, vin, vcontract, vout, sresp, sout, row, tcontract,
          tout, conn, sessions, saved, pcall, page>>

Spec == Init /\ [][Next]_vars

(* --------------- one call of FactVerifier.verify_response -------------- *)

MaxTextLen == 5

VerifyAlphabet == {"1", "3", "5", " ", "Y", "J"}

Texts == UNION {[1..n -> VerifyAlphabet] : n \in 0..MaxTextLen}

InitVerify ==
  /\ vin \in Texts
  /\ row \in CandidateRows
  /\ vcontract = NewContract(row, NoHash)
  /\ vout = NoVerify
  /\ contract = vcontract
  /\ NoTamper
  /\ NoHandler
  /\ NoAux
  /\ istate = InitialState(contract)
  /\ registered = InitialState(contract)
  /\ active = FALSE
  /\ alias = TRUE
  /\ pc = "verify"
  /\ outbox = NoMessage
  /\ persisted = <<>>
  /\ finalized = <<>>
  /\ last = NoCall
  /\ sresp = NoResponse
  /\ sout = NoScore

sessionVars == <<contract, istate, registered, active, alias, pc, outbox,
                 persisted, finalized, last, row>>

CallVerify ==
  /\ pc = "verify"
  /\ ~vout.called
  /\ vout' = [called |-> TRUE, result |-> VerifyResponse(vcontract, vin)]
  /\ UNCHANGED <<sessionVars, vin, vcontract, scoreVars, tamperVars,
                 handlerVars, auxVars>>

NextVerify == CallVerify

SpecVerify == InitVerify /\ [][NextVerify]_vars

(* ------------- one end-of-interview call of the scorer ---------------- *)

MaxResponseLen == 3

ScorerAlphabet == {FenceJson, Fence, " ", "x"} \cup DOMAIN JsonDocs

ScorerTexts == UNION {[1..n -> ScorerAlphabet] : n \in 0..MaxResponseLen}

\* what openai.chat.completions.create may come to: it raises, or it
\* returns a text
ScorerResponses ==
  {NoResponse} \cup {[failed |-> FALSE, text |-> t] : t \in ScorerTexts}

InitScore ==
  /\ sresp \in ScorerResponses
  /\ sout = NoScore
  /\ row \in CandidateRows
  /\ contract = NewContract(row, NoHash)
  /\ NoTamper
  /\ NoHandler
  /\ NoAux
  /\ istate = InitialState(contract)
  /\ registered = InitialState(contract)
  /\ active = FALSE
  /\ alias = TRUE
  /\ pc = "score"
  /\ outbox = NoMessage
  /\ persisted = <<>>
  /\ finalized = <<>>
  /\ last = NoCall
  /\ vin = <<>>
  /\ vcontract = contract
  /\ vout = NoVerify

\* handle_end_of_interview: score_credibility, then the scores row
HandleEndOfInterview ==
  /\ pc = "score"
  /\ ~sout.called
  /\ sout' \in {EndOfInterviewResult(credibility_data) :
                 credibility_data \in {ScoreCredibility(sresp)}}
  /\ UNCHANGED <<sessionVars, verifyVars, sresp, tamperVars, handlerVars, auxVars>>

NextScore == HandleEndOfInterview

SpecScore == InitScore /\ [][NextScore]_vars

(* ------------------ a contract written to after construction ------------ *)
(* Config.frozen makes pydantic refuse an assignment to a field; a write   *)
(* that goes round it (object.__setattr__) changes the field and leaves    *)
(* the stored contract_hash as it is.                                      *)

\* the four scalar fields compute_hash covers
DigestFields ==
  {"candidate_id", "years_of_experience", "expected_salary",
   "has_field_experience"}

\* the values a field is written with
TamperCandidateIds == {"cand1", "cand2"}
TamperYears == {3, 5, 7}
TamperSalaries == {300, 400}

FieldValues(f) ==
  CASE f = "candidate_id" -> TamperCandidateIds
    [] f = "years_of_experience" -> TamperYears
    [] f = "expected_salary" -> TamperSalaries
    [] f = "has_field_experience" -> BOOLEAN

\* object.__setattr__(contract, f, v)
SetAttr(c, f, v) == [c EXCEPT ![f] = v]

InitTamper ==
  /\ row \in CandidateRows
  /\ contract \in {o.contract : o \in LoadContract(row)}
  /\ tcontract = contract
  /\ tout = NoTamperResult
  /\ NoHandler
  /\ NoAux
  /\ istate = InitialState(contract)
  /\ registered = InitialState(contract)
  /\ active = FALSE
  /\ alias = TRUE
  /\ pc = "tamper"
  /\ outbox = NoMessage
  /\ persisted = <<>>
  /\ finalized = <<>>
  /\ last = NoCall
  /\ vin = <<>>
  /\ vcontract = contract
  /\ vout = NoVerify
  /\ sresp = NoResponse
  /\ sout = NoScore

\* one digest-covered field is written with a value other than its own
Bypass ==
  /\ pc = "tamper"
  /\ \E f \in DigestFields :
       \E v \in FieldValues(f) \ {tcontract[f]} :
         tcontract' = SetAttr(tcontract, f, v)
  /\ tout' = NoTamperResult
  /\ UNCHANGED <<sessionVars, verifyVars, scoreVars, handlerVars, auxVars>>

\* contract.verify_integrity() on the contract as it is now
CallVerifyIntegrity ==
  /\ pc = "tamper"
  /\ ~tout.called
  /\ tout' = [called |-> TRUE, result |-> VerifyIntegrity(tcontract)]
  /\ UNCHANGED <<sessionVars, verifyVars, scoreVars, handlerVars, auxVars, tcontract>>

NextTamper == Bypass \/ CallVerifyIntegrity

SpecTamper == InitTamper /\ [][NextTamper]_vars

(* ------------- several connections on one handler ---------------------- *)
(* ws_handler is one InterviewWebSocketHandler for the process; every      *)
(* websocket runs its own handle_interview call on it.  The calls share    *)
(* self.active_sessions; interview_id, contract and interview_state are    *)
(* local variables of a call.  A call's steps are its awaits; the calls    *)
(* interleave at them.  What a turn computes is left to the session        *)
(* specification above: a state here is the connection it was built for    *)
(* and its turn_count.                                                     *)

Conns == {1, 2}

\* the values uuid.uuid4() may return
InterviewIds == {"u1", "u2"}

\* the number of messages a client sends
MaxMessages == 2

MessageTypes == {"audio", "end_interview"}

NoSession == [conn |-> 0, turn_count |-> 0]

\* a websocket no handle_interview call runs for yet
NotConnected ==
  [phase |-> "none", interview_id |-> "none", state |-> NoSession,
   original |-> NoSession, alias |-> TRUE, inbox |-> <<>>, received |-> 0,
   sent |-> 0]

\* the phases in which a handle_interview call is between receive_json and
\* the send_json of the same turn
MidTurn == {"transcribing", "processing", "synthesizing", "sending"}

Live(c) == conn[c].phase \notin {"none", "closed"}

Issued == {conn[c].interview_id : c \in Conns} \ {"none"}

Uuid4_Reused(issued) == InterviewIds

\* str(uuid.uuid4()): a value no earlier call has returned
Uuid4(issued) == InterviewIds \ issued

\* interview_state = {...} of the call for connection c
NewState(c) == [conn |-> c, turn_count |-> 0]

\* process_turn's in-place update of the dict it is given
Touched(state) == [state EXCEPT !.turn_count = @ + 1]

\* a _finalize_interview(interview_id, state) call made by the call for c
FinalizeCall(c, interview_id, state) ==
  [by |-> c, interview_id |-> interview_id, state |-> state]

Cleanup_Keep(reg, interview_id) == reg

\* "finally": if interview_id in self.active_sessions: del ...
Cleanup(reg, interview_id) == [reg EXCEPT ![interview_id] = 0]

MayReceive_AnyTime(phase) == phase \in MidTurn \cup {"waiting"}

\* the call reads a message only where it awaits websocket.receive_json()
MayReceive(phase) == phase = "waiting"

InitSessions ==
  /\ conn = [c \in Conns |-> NotConnected]
  /\ sessions = [i \in InterviewIds |-> 0]
  /\ saved = {}
  /\ NoAux
  /\ row \in {r \in CandidateRows : r.years_of_experience = 5}
  /\ contract = NewContract(row, NoHash)
  /\ NoTamper
  /\ istate = InitialState(contract)
  /\ registered = InitialState(contract)
  /\ active = FALSE
  /\ alias = TRUE
  /\ pc = "handler"
  /\ outbox = NoMessage
  /\ persisted = <<>>
  /\ finalized = <<>>
  /\ last = NoCall
  /\ vin = <<>>
  /\ vcontract = contract
  /\ vout = NoVerify
  /\ sresp = NoResponse
  /\ sout = NoScore

otherVars == <<sessionVars, verifyVars, scoreVars, tamperVars, auxVars>>

\* handle_interview up to the registration: accept, uuid4, load_contract,
\* interview_state, active_sessions[interview_id] = interview_state
Connect(c) ==
  /\ conn[c].phase = "none"
  /\ \E id \in Uuid4(Issued) :
       /\ conn' = [conn EXCEPT ![c] =
                     [@ EXCEPT !.phase = "opening", !.interview_id = id,
                               !.state = NewState(c), !.original = NewState(c)]]
       /\ sessions' = [sessions EXCEPT ![id] = c]
  /\ UNCHANGED <<saved, otherVars>>

\* handle_interview when load_contract raises: "except Exception", then
\* "finally", with nothing registered under the call's interview_id
ConnectFailed(c) ==
  /\ conn[c].phase = "none"
  /\ \E id \in Uuid4(Issued) :
       conn' = [conn EXCEPT ![c] =
                  [@ EXCEPT !.phase = "closed", !.interview_id = id]]
  /\ sessions' = sessions
  /\ UNCHANGED <<saved, otherVars>>

\* the client of c sends a message
ClientSend(c) ==
  /\ Live(c)
  /\ conn[c].received + Len(conn[c].inbox) < MaxMessages
  /\ \E type \in MessageTypes :
       conn' = [conn EXCEPT ![c] = [@ EXCEPT !.inbox = Append(@, type)]]
  /\ UNCHANGED <<sessions, saved, otherVars>>

\* _send_opening_message: process_turn changes interview_state in place, the
\* state it returns is dropped
Opening(c) ==
  /\ conn[c].phase = "opening"
  /\ conn' = [conn EXCEPT ![c] =
                [@ EXCEPT !.phase = "waiting", !.state = Touched(@),
                          !.original = Touched(@)]]
  /\ UNCHANGED <<sessions, saved, otherVars>>

\* message = await websocket.receive_json(): an audio message starts a turn;
\* end_interview finalizes the call's interview_state and leaves the loop
Receive(c) ==
  /\ MayReceive(conn[c].phase)
  /\ conn[c].inbox # <<>>
  /\ IF Head(conn[c].inbox) = "audio"
     THEN /\ conn' = [conn EXCEPT ![c] =
                        [@ EXCEPT !.phase = "transcribing", !.inbox = Tail(@),
                                  !.received = @ + 1]]
          /\ UNCHANGED <<sessions, saved>>
     ELSE /\ conn' = [conn EXCEPT ![c] =
                        [@ EXCEPT !.phase = "closed", !.inbox = Tail(@)]]
          /\ saved' = saved \cup
                        {FinalizeCall(c, conn[c].interview_id, conn[c].state)}
          /\ sessions' = Cleanup(sessions, conn[c].interview_id)
  /\ UNCHANGED otherVars

\* transcript = await self.groq_stt.transcribe(audio_data)
Transcribe(c) ==
  /\ conn[c].phase = "transcribing"
  /\ conn' = [conn EXCEPT ![c] = [@ EXCEPT !.phase = "processing"]]
  /\ UNCHANGED <<sessions, saved, otherVars>>

\* interview_state = await self.agent.process_turn(...): the dict given is
\* changed in place, the name is bound to the returned state
Process(c) ==
  /\ conn[c].phase = "processing"
  /\ conn' = [conn EXCEPT ![c] =
                [@ EXCEPT !.phase = "synthesizing", !.state = Touched(@),
                          !.original = IF conn[c].alias THEN Touched(@) ELSE @,
                          !.alias = FALSE]]
  /\ UNCHANGED <<sessions, saved, otherVars>>

\* audio_response = await self.tts.synthesize(system_response)
Synthesize(c) ==
  /\ conn[c].phase = "synthesizing"
  /\ conn' = [conn EXCEPT ![c] = [@ EXCEPT !.phase = "sending"]]
  /\ UNCHANGED <<sessions, saved, otherVars>>

\* await websocket.send_json(...), then "Check if interview complete"
\* (complete: what the check comes to on the state of the turn)
Send(c) ==
  /\ conn[c].phase = "sending"
  /\ \E complete \in BOOLEAN :
       IF complete
       THEN /\ conn' = [conn EXCEPT ![c] =
                          [@ EXCEPT !.phase = "closed", !.sent = @ + 1]]
            /\ saved' = saved \cup
                          {FinalizeCall(c, conn[c].interview_id, conn[c].state)}
            /\ sessions' = Cleanup(sessions, conn[c].interview_id)
       ELSE /\ conn' = [conn EXCEPT ![c] =
                          [@ EXCEPT !.phase = "waiting", !.sent = @ + 1]]
            /\ UNCHANGED <<sessions, saved>>
  /\ UNCHANGED otherVars

\* WebSocketDisconnect out of receive_json: the dict finalized is the one
\* active_sessions holds under the call's interview_id
Disconnected(c) ==
  /\ conn[c].phase = "waiting"
  /\ conn' = [conn EXCEPT ![c] = [@ EXCEPT !.phase = "closed"]]
  /\ saved' = IF sessions[conn[c].interview_id] # 0
              THEN saved \cup
                     {FinalizeCall(c, conn[c].interview_id,
                                   conn[sessions[conn[c].interview_id]].original)}
              ELSE saved
  /\ sessions' = Cleanup(sessions, conn[c].interview_id)
  /\ UNCHANGED otherVars

\* an exception out of an awaited call: "except Exception", then "finally"
Failed(c) ==
  /\ conn[c].phase \in MidTurn \cup {"opening"}
  /\ conn' = [conn EXCEPT ![c] = [@ EXCEPT !.phase = "closed"]]
  /\ sessions' = Cleanup(sessions, conn[c].interview_id)
  /\ UNCHANGED <<saved, otherVars>>

NextSessions ==
  \E c \in Conns :
    \/ Connect(c)
    \/ ConnectFailed(c)
    \/ ClientSend(c)
    \/ Opening(c)
    \/ Receive(c)
    \/ Transcribe(c)
    \/ Process(c)
    \/ Synthesize(c)
    \/ Send(c)
    \/ Disconnected(c)
    \/ Failed(c)

SpecSessions == InitSessions /\ [][NextSessions]_vars

(* --------------- one call of PersonaEnforcer.enforce -------------------- *)

\* the length of the texts enforce is called with
MaxPersonaLen == 3

\* the symbols enforce tells apart: an English word, an Arabic word outside
\* the table, the formal words and the symbols of their colloquial forms,
\* white space
PersonaAlphabet == {"e", "a", "M", "S", "T", "I", " "}

PersonaTexts ==
  UNION {[1..n -> PersonaAlphabet] : n \in 0..MaxPersonaLen}

InitPersona ==
  /\ \E text \in PersonaTexts, strict_mode \in BOOLEAN :
       pcall = [NoPersonaCall EXCEPT !.text = text, !.strict_mode = strict_mode]
  /\ page = NoPage
  /\ row \in {r \in CandidateRows : r.years_of_experience = 5}
  /\ contract = NewContract(row, NoHash)
  /\ NoTamper
  /\ NoHandler
  /\ istate = InitialState(contract)
  /\ registered = InitialState(contract)
  /\ active = FALSE
  /\ alias = TRUE
  /\ pc = "enforce"
  /\ outbox = NoMessage
  /\ persisted = <<>>
  /\ finalized = <<>>
  /\ last = NoCall
  /\ vin = <<>>
  /\ vcontract = contract
  /\ vout = NoVerify
  /\ sresp = NoResponse
  /\ sout = NoScore

\* PersonaEnforcer().enforce(text, strict_mode)
CallEnforce ==
  /\ pc = "enforce"
  /\ ~pcall.called
  /\ pcall' = [pcall EXCEPT
                 !.called = TRUE,
                 !.result = Enforce(pcall.text, pcall.strict_mode)]
  /\ UNCHANGED <<sessionVars, verifyVars, scoreVars, tamperVars, handlerVars,
                 page>>

NextPersona == CallEnforce

SpecPersona == InitPersona /\ [][NextPersona]_vars

(* -------------------- the candidate's interview page -------------------- *)
(* InterviewPage is a React component: its state changes when the          *)
(* candidate clicks a button the render shows, and when something it       *)
(* awaits (a fetch, vapi.start, a timer) comes back.  Several              *)
(* startInterview calls may be in flight at once: the start button stays   *)
(* on the page while callStatus is "ready".                                *)

\* the number of startInterview calls the candidate makes
MaxStarts == 2

PageTasks == {"fetchContext", "fetchCandidate", "startFetch", "vapiStart", "redirect"}

NoTasks == [t \in PageTasks |-> 0]

\* the component as mounted: the useState initial values, and the two
\* effects that fetch the registration context and the candidate
MountedPage(assistantId) ==
  [open |-> TRUE, route |-> "interview", isLoading |-> TRUE,
   candidate |-> "null", error |-> "null", loadingContext |-> TRUE,
   registrationForm |-> "null", callStatus |-> "ready", transcript |-> <<>>,
   interviewId |-> "null", vapiCallRef |-> "null",
   assistantId |-> assistantId, starts |-> 0,
   tasks |-> [NoTasks EXCEPT !["fetchContext"] = 1, !["fetchCandidate"] = 1]]

Queue(pg, t) == [pg EXCEPT !.tasks[t] = @ + 1]

Unqueue(pg, t) == [pg EXCEPT !.tasks[t] = @ - 1]

\* the buttons the render puts on the page
VisibleButtons(pg) ==
  IF pg.route # "interview" \/ pg.isLoading THEN {}
  ELSE IF pg.error # "null" /\ pg.candidate = "null"
  THEN {"return_to_application"}
  ELSE (IF pg.callStatus = "ready" THEN {"start"} ELSE {})
       \cup (IF pg.callStatus = "live" THEN {"stop"} ELSE {})
       \cup (IF Len(pg.transcript) > 0 /\ pg.callStatus = "ready"
             THEN {"end_interview"} ELSE {})

\* startInterview up to its first await
StartInterview(pg) ==
  IF pg.candidate = "null" THEN pg
  ELSE Queue([pg EXCEPT !.error = "null", !.starts = @ + 1], "startFetch")

\* stopInterview
StopInterview(pg) ==
  [pg EXCEPT !.vapiCallRef = "null", !.callStatus = "processing"]

\* endInterview
EndInterview_Page(pg) ==
  Queue([pg EXCEPT !.vapiCallRef = "null", !.callStatus = "analyzing"],
        "redirect")

\* the onClick of a button
OnClick(pg, button) ==
  CASE button = "start" -> StartInterview(pg)
    [] button = "stop" -> StopInterview(pg)
    [] button = "end_interview" -> EndInterview_Page(pg)
    [] button = "return_to_application" -> [pg EXCEPT !.route = "apply"]

\* the outcomes of what a task awaits
TaskOutcomes(t) ==
  CASE t = "fetchContext" -> {"ok", "failed"}
    [] t = "fetchCandidate" -> {"ok", "404", "504", "other"}
    [] t = "startFetch" -> {"id", "no_id", "throws"}
    [] t = "vapiStart" -> {"ok", "throws"}
    [] t = "redirect" -> {"fired"}

\* the outer catch of startInterview
StartFailed(pg, msg) == [pg EXCEPT !.callStatus = "ready", !.error = msg]

\* the code that runs when what the task t awaited has come back
Continue(pg, t, outcome) ==
  CASE t = "fetchContext" ->
         [pg EXCEPT !.loadingContext = FALSE,
                    !.registrationForm = IF outcome = "ok" THEN "data" ELSE @]
    [] t = "fetchCandidate" ->
         IF outcome = "ok"
         THEN [pg EXCEPT !.isLoading = FALSE, !.candidate = "cand1"]
         ELSE [pg EXCEPT
                 !.isLoading = FALSE,
                 !.error = CASE outcome = "404" -> "Candidate not found"
                             [] outcome = "504" -> "Request timed out. Please try again."
                             [] OTHER -> "Failed to load candidate"]
    [] t = "startFetch" ->
         IF outcome = "throws" THEN StartFailed(pg, "Failed to start interview")
         ELSE IF outcome = "no_id"
         THEN StartFailed(pg, "Failed to initialize interview session")
         ELSE IF ~pg.assistantId
         THEN StartFailed([pg EXCEPT !.interviewId = "int1"],
                          "Missing Vapi Assistant ID")
         ELSE Queue([pg EXCEPT !.interviewId = "int1", !.transcript = <<>>],
                    "vapiStart")
    [] t = "vapiStart" ->
         IF outcome = "ok"
         THEN [pg EXCEPT !.vapiCallRef = "call", !.callStatus = "live"]
         ELSE [pg EXCEPT !.error = "Failed to start call",
                         !.callStatus = "ready"]
    [] t = "redirect" -> [pg EXCEPT !.route = "complete"]

InitPage ==
  /\ \E assistantId \in BOOLEAN : page = MountedPage(assistantId)
  /\ pcall = NoPersonaCall
  /\ row \in {r \in CandidateRows : r.years_of_experience = 5}
  /\ contract = NewContract(row, NoHash)
  /\ NoTamper
  /\ NoHandler
  /\ istate = InitialState(contract)
  /\ registered = InitialState(contract)
  /\ active = FALSE
  /\ alias = TRUE
  /\ pc = "page"
  /\ outbox = NoMessage
  /\ persisted = <<>>
  /\ finalized = <<>>
  /\ last = NoCall
  /\ vin = <<>>
  /\ vcontract = contract
  /\ vout = NoVerify
  /\ sresp = NoResponse
  /\ sout = NoScore

\* the candidate clicks a button that is on the page
Click ==
  /\ pc = "page"
  /\ \E button \in VisibleButtons(page) :
       /\ button = "start" => page.starts < MaxStarts
       /\ page' = OnClick(page, button)
  /\ UNCHANGED <<sessionVars, verifyVars, scoreVars, tamperVars, handlerVars,
                 pcall>>

\* something the page awaits comes back
RunTask ==
  /\ pc = "page"
  /\ \E t \in PageTasks :
       /\ page.tasks[t] > 0
       /\ \E outcome \in TaskOutcomes(t) :
            page' = Continue(Unqueue(page, t), t, outcome)
  /\ UNCHANGED <<sessionVars, verifyVars, scoreVars, tamperVars, handlerVars,
                 pcall>>

NextPage == Click \/ RunTask

\* every click that is possible and every awaited result comes in the end
SpecPage == InitPage /\ [][NextPage]_vars /\ WF_vars(Click) /\ WF_vars(RunTask)

(* ------------------------------ properties ----------------------------- *)

\* C1: verify_integrity() called right after construction, no field changed
\* in between, returns True: the digest recomputed at check time equals the
\* digest stored at construction.
C1_IntegrityAfterConstruction ==
  contract # NoContract => VerifyIntegrity(contract)

\* the duration mentions of s that state a figure N, 0 < N < 50, other than
\* the years of experience of contract c (positions in the list of mentions)
HallucinatedDurations(c, s) ==
  UNION { {i \in 1..Len(nums) :
             /\ 0 < StrToInt(nums[i].num)
             /\ StrToInt(nums[i].num) < 50
             /\ StrToInt(nums[i].num) # c.years_of_experience}
          : nums \in {FindDurations(s, 1)} }

RECURSIVE SubstituteFigures(_, _, _, _, _)
SubstituteFigures(s, nums, S, new, k) ==
  IF k = 0 THEN s
  ELSE SubstituteFigures(
         IF k \in S
         THEN SubSeq(s, 1, nums[k].start - 1) \o new
                \o SubSeq(s, nums[k].numEnd + 1, Len(s))
         ELSE s,
         nums, S, new, k - 1)

\* C3: for an utterance with a duration mention that differs from the
\* contract's years_of_experience, verify_response returns valid = False and
\* a corrected utterance that has the contract's value in place of the
\* mismatched figure (of one or more of the mismatched mentions) and every
\* other token unchanged.
C3_MismatchCorrected ==
  vout.called =>
    \A nums \in {FindDurations(vin, 1)} :
      \A bad \in {HallucinatedDurations(vcontract, vin)} :
        bad # {} =>
          /\ ~vout.result.valid
          /\ vout.result.corrected.some
          /\ \E S \in (SUBSET bad) \ {{}} :
               vout.result.corrected.val =
                 SubstituteFigures(vin, nums, S,
                                   IntToStr(vcontract.years_of_experience),
                                   Len(nums))

\* s has no numeric mismatch against c: every figure in front of a duration
\* unit is the contract's years_of_experience or lies outside 0 < N < 50,
\* and every figure in front of a currency unit is the contract's
\* expected_salary
NoNumericMismatch(c, s) ==
  \A i \in 1..Len(s) :
    /\ \A m \in {NumUnitAt(s, i, DurationUnits)} :
         (m.ok /\ 0 < StrToInt(m.num) /\ StrToInt(m.num) < 50)
           => StrToInt(m.num) = c.years_of_experience
    /\ \A m \in {NumUnitAt(s, i, CurrencyUnits)} :
         m.ok => StrToInt(m.num) = c.expected_salary

StageOrder == <<"opening", "experience_probe", "credibility_check", "closing">>

StageIndex(stage) == CHOOSE i \in 1..Len(StageOrder) : StageOrder[i] = stage

\* C7: in every step of a session the current stage stays what it is or
\* becomes the next stage of the fixed order opening, experience_probe,
\* credibility_check, closing (no skip, no move backward, at most one stage
\* per turn), and once the stage is closing the advancement step leaves it
\* closing.
C7_StageOrder ==
  [][ /\ \/ istate'.current_stage = istate.current_stage
         \/ StageIndex(istate'.current_stage) = StageIndex(istate.current_stage) + 1
      /\ istate'.current_stage = "closing" =>
           StageAfterCheck("closing", istate'.questions_asked) = "closing"
    ]_vars

\* a session has moved through the stages up to closing
C7_Witness ==
  /\ istate.current_stage = "closing"
  /\ last.called /\ ~last.raised /\ last.advanced
  /\ last.stage_before = "credibility_check"

C10_AppendOnly ==
  [][ /\ IsPrefixL(istate.conversation_history, istate'.conversation_history)
      /\ IsPrefixL(istate.detected_inconsistencies,
                   istate'.detected_inconsistencies)
    ]_vars

\* a process_turn call has run on a session that already had turns and
\* inconsistency records, and has added to both lists
C10_Witness ==
  /\ last.called /\ ~last.raised
  /\ last.history_before > 0
  /\ last.inconsistencies_before > 0
  /\ LenL(istate.detected_inconsistencies) > last.inconsistencies_before
  /\ LenL(istate.conversation_history) > last.history_before

\* C11: the contract of a session is immutable: in every step the contract,
\* its stored digest included, stays what it was at session start, in the
\* session, in the interview state the pipeline works on and in the state
\* registered in active_sessions.
C11_ContractImmutable ==
  [][ /\ contract' = contract
      /\ istate'.contract = contract
      /\ registered'.contract = contract
    ]_vars

\* several turns have gone through the pipeline with the contract in the
\* state
C11_Witness ==
  /\ istate.turn_count >= 3
  /\ last.called /\ ~last.raised
  /\ istate.contract = contract

\* C12: an integrity failure is fatal: in the turn where verify_integrity
\* fails no completion is requested and no utterance is delivered, the
\* session takes no further turn, and nothing of the session is written to
\* the datastore.
C12_IntegrityFailureFatal ==
  last.failure = "integrity" =>
    /\ last.llm_calls = 0
    /\ outbox.type # "audio"
    /\ pc = "failed"
    /\ ~active
    /\ persisted = <<>>
    /\ finalized = <<>>

\* a turn has failed the integrity check
C12_Witness ==
  /\ last.called /\ last.raised /\ last.failure = "integrity"
  /\ pc = "failed"
  /\ outbox = ErrorMessage

RawErrorTexts ==
  {ErrorMessage.text, ServiceErrorMessage.text}
    \cup {LoadErrorMessage(r).text : r \in DatastoreRows}

\* C16: no message sent to the candidate carries the text of an internal
\* exception.
C16_NoRawErrorText == outbox.text \notin RawErrorTexts

\* C17: the credibility score of the assessment the scorer returns is in
\* [0,100], whatever the completion service answered.
C17_ScoreInRange ==
  (sout.called /\ "credibility_score" \in sout.credibility.keys) =>
    (0 <= sout.credibility.credibility_score
       /\ sout.credibility.credibility_score <= 100)

\* the completion service has answered with the structured assessment that
\* is required: a JSON object with the keys of the assessment
RequiredAssessment(resp) ==
  /\ ~resp.failed
  /\ \E parsed \in {JsonLoads(CleanResponse(Strip(resp.text)))} :
       /\ parsed.ok
       /\ parsed.value.json = "object"
       /\ AssessmentKeys \subseteq parsed.value.keys

\* C18: when the completion call of the scorer fails or its answer is not
\* the required structured assessment, the scorer returns exactly the fixed
\* neutral default (score 50, level undetermined, one red flag, needs manual
\* review, no findings).
C18_DefaultOnMalformed ==
  (sout.called /\ ~RequiredAssessment(sresp)) =>
    sout.credibility = DefaultCredibilityScore

\* C19: scoring never blocks finalization: for every outcome of the
\* completion service the scorer returns an assessment, and the
\* end-of-interview handler saves it.
C19_ScoringNeverBlocks ==
  sout.called =>
    /\ sout.credibility.json = "object"
    /\ sout.status = 200
    /\ sout.saved

\* the fields of the contract and of the registration record
KnownFields == DOMAIN contract

\* C20: every inconsistency finding of a returned assessment names a field
\* of the contract or of the registration record.
C20_FindingsReferenceKnownFields ==
  sout.called =>
    \A i \in DOMAIN sout.credibility.inconsistencies_found :
      sout.credibility.inconsistencies_found[i] \in KnownFields

C27_AdvanceIdempotent ==
  (last.called /\ ~last.raised) =>
    \A s1 \in {StageAfterCheck(last.stage_before, last.questions_at_check)} :
       StageAfterCheck(s1, last.questions_at_check) = s1

\* a turn has advanced the stage, from a stage other than the first
C27_Witness ==
  /\ last.called /\ ~last.raised /\ last.advanced
  /\ last.stage_before # "opening"

\* C28: when the integrity check of a turn fails, the turn list, the turn
\* counter, the current stage and the inconsistency list of the session are
\* exactly as they were before the call.
C28_FailedCheckLeavesStateUntouched ==
  last.failure = "integrity" =>
    /\ LenL(istate.conversation_history) = last.history_before
    /\ istate.turn_count = last.turn_count_before
    /\ istate.current_stage = last.stage_before
    /\ LenL(istate.detected_inconsistencies) = last.inconsistencies_before

\* what persona enforcement makes of what fact verification makes of a
\* completion
PipelineOutput(c, completion) ==
  The({Enforce(t, FALSE).corrected :
         t \in {IF v.valid THEN completion ELSE v.corrected.val :
                  v \in {VerifyResponse(c, completion)}}})

\* C29: the utterance a turn delivers is the output of persona enforcement
\* applied to the output of fact verification applied to the completion of
\* that turn, the integrity check having passed before the completion was
\* requested.
C29_PipelineOrder ==
  (outbox.type = "audio" /\ last.called /\ last.failure = "none") =>
    /\ VerifyIntegrity(contract)
    /\ last.llm_calls = 1
    /\ last.enforcer_input =
         (IF last.verifier_valid THEN last.completion
          ELSE VerifyResponse(contract, last.completion).corrected.val)
    /\ outbox.text = PipelineOutput(contract, last.completion)

\* a delivered utterance that fact verification and persona enforcement
\* have both changed
C29_Witness ==
  /\ outbox.type = "audio" /\ last.called /\ last.failure = "none"
  /\ ~last.verifier_valid
  /\ outbox.text # last.enforcer_input
  /\ last.enforcer_input # last.completion

\* the mentions of a currency amount in s that differ from the contract's
\* expected_salary by more than 50% of that value
SalaryOverHalf(c, s) ==
  UNION { {i \in 1..Len(sals) :
             2 * Abs(StrToInt(sals[i].num) - c.expected_salary)
               > c.expected_salary}
          : sals \in {FindSalaries(s, 1)} }

\* C21: for an utterance without a mismatched duration mention,
\* verify_response returns valid = False if and only if a currency amount in
\* it differs from the contract's expected_salary by more than 50% of that
\* value; the corrected utterance then has the contract's amount in place of
\* the flagged figure (of one or more of them) and every other token
\* unchanged.
C21_SalaryFlaggedIffOverHalf ==
  (vout.called /\ HallucinatedDurations(vcontract, vin) = {}) =>
    \A sals \in {FindSalaries(vin, 1)} :
      \A bad \in {SalaryOverHalf(vcontract, vin)} :
        /\ (bad # {}) <=> ~vout.result.valid
        /\ bad # {} =>
             /\ vout.result.corrected.some
             /\ \E S \in (SUBSET bad) \ {{}} :
                  vout.result.corrected.val =
                    SubstituteFigures(vin, sals, S,
                                      IntToStr(vcontract.expected_salary),
                                      Len(sals))

\* C30: for an utterance with both a mismatched duration mention and a
\* mismatched currency amount, verify_response returns a corrected utterance
\* that has the contract's years_of_experience in place of the mismatched
\* duration figure (of one or more of them) and every other token, the
\* currency mentions included, exactly as in the input.
C30_FirstClassOnly ==
  vout.called =>
    \A nums \in {FindDurations(vin, 1)} :
      \A bad \in {HallucinatedDurations(vcontract, vin)} :
        \A sals \in {FindSalaries(vin, 1)} :
          (/\ bad # {}
           /\ \E i \in 1..Len(sals) :
                /\ SalaryFlagged(StrToInt(sals[i].num), vcontract.expected_salary)
                /\ i \in SalaryOverHalf(vcontract, vin)) =>
            /\ ~vout.result.valid
            /\ vout.result.corrected.some
            /\ \E S \in (SUBSET bad) \ {{}} :
                 vout.result.corrected.val =
                   SubstituteFigures(vin, nums, S,
                                     IntToStr(vcontract.years_of_experience),
                                     Len(nums))

\* C26: when load_contract raises (no row for the candidate, or full_name or
\* target_role missing), the failure is surfaced as an error message and the
\* session ends before any turn: process_turn is never called, no completion
\* is requested, no utterance is delivered, the session is not registered,
\* and nothing is written to the datastore.
C26_LoadFailureBeforeAnyTurn ==
  LoadRaises(row) =>
    /\ pc \in {"loading", "failed"}
    /\ pc = "failed" => outbox = LoadErrorMessage(row)
    /\ ~last.called /\ last.llm_calls = 0 /\ last.failure = "none"
    /\ outbox.type # "audio"
    /\ istate = InitialState(NoContract)
    /\ ~active
    /\ persisted = <<>>
    /\ finalized = <<>>

\* load_contract has raised and handle_interview has ended
C26_Witness == LoadRaises(row) /\ pc = "failed"

\* the digest-covered fields in which the contract as it is now differs from
\* the contract as it was built
ChangedFields == {f \in DigestFields : tcontract[f] # contract[f]}

\* C23: for every contract, once a digest-covered scalar field
\* (candidate_id, years_of_experience, expected_salary,
\* has_field_experience) has been given a different value by a write that
\* goes round immutability, a following verify_integrity() returns False.
C23_TamperDetected ==
  (tout.called /\ ChangedFields # {}) => ~tout.result

\* verify_integrity has returned False on a contract that passed it as built
\* and has exactly one digest-covered field changed
C23_Witness ==
  /\ tout.called /\ ~tout.result
  /\ VerifyIntegrity(contract)
  /\ Cardinality(ChangedFields) = 1

\* every live connection has its own interview_id, its own interview_state,
\* and its own entry of active_sessions; every _finalize_interview call was
\* made with the caller's own interview_id and state
IsolationInv ==
  /\ \A c \in Conns :
       Live(c) =>
         /\ conn[c].state.conn = c
         /\ conn[c].original.conn = c
         /\ sessions[conn[c].interview_id] = c
         /\ \A d \in Conns \ {c} :
              Live(d) => conn[d].interview_id # conn[c].interview_id
  /\ Cardinality({i \in InterviewIds : sessions[i] # 0})
       = Cardinality({c \in Conns : Live(c)})
  /\ \A r \in saved :
       /\ r.state.conn = r.by
       /\ r.interview_id = conn[r.by].interview_id

\* a step changes what belongs to one connection at most, and leaves the
\* active_sessions entry of every other live connection as it was
IsolationStep ==
  \A d \in Conns :
    conn'[d] = conn[d] =>
      /\ Live(d) =>
           sessions'[conn[d].interview_id] = sessions[conn[d].interview_id]
      /\ \A r \in saved' \ saved : r.by # d /\ r.state.conn # d

\* C24: sessions on one handler are isolated under every interleaving of
\* their steps: a step of one session leaves the state and the registry
\* entry of every other session as they were, every finalization is made
\* with the session's own state, and every live connection has exactly one
\* session, registered under an interview_id of its own.
C24_SessionsIsolated ==
  []IsolationInv /\ [][IsolationStep /\ \E c \in Conns :
                          \A d \in Conns \ {c} : conn'[d] = conn[d]]_vars

\* two sessions are live at once, each has taken a turn, and one of them has
\* been finalized
C24_Witness ==
  /\ \A c \in Conns : conn[c].state.turn_count >= 2
  /\ \E c \in Conns : Live(c)
  /\ \E r \in saved : r.state.turn_count >= 2

\* C25: within one session turns do not overlap: a message is read only
\* when every message read before has had its response transmitted, so at
\* any time at most one message has been read and not answered, and none
\* while the handler waits for the next message.
C25_TurnsSequential ==
  \A c \in Conns :
    /\ conn[c].received - conn[c].sent \in {0, 1}
    /\ conn[c].phase \in MidTurn => conn[c].received = conn[c].sent + 1
    /\ conn[c].phase = "waiting" => conn[c].received = conn[c].sent

\* a second message was sent while the first turn was in progress, and has
\* been read after the response of the first turn
C25_Witness ==
  \E c \in Conns : conn[c].received = 2 /\ conn[c].sent = 1

C31_EnglishIsInvalid ==
  (pcall.called /\ DetectEnglish(pcall.text)) => ~pcall.result.valid

\* C32: the text enforce returns is its input with the formal-to-colloquial
\* substitutions applied, whatever the validity it returns.
C32_SubstitutedAlways ==
  pcall.called => pcall.result.corrected = ConvertToJordanian(pcall.text)

\* C38: the formal-to-colloquial substitution is idempotent: applied to the
\* text enforce has returned after substituting, it changes nothing; in
\* particular a text made of colloquial forms only comes back unchanged.
C38_ConversionIdempotent ==
  (pcall.called /\ pcall.result.valid) =>
    ConvertToJordanian(pcall.result.corrected) = pcall.result.corrected

\* C36: once the handler of a connection has ended, by an end message, the
\* terminal stage, a disconnection or an error, active_sessions has no entry
\* under that connection's interview_id; and as long as a connection is
\* live its own entry is there, whatever other connections have ended.
C36_RegistryCleanedUp ==
  \A c \in Conns :
    /\ conn[c].phase = "closed" => sessions[conn[c].interview_id] = 0
    /\ Live(c) => sessions[conn[c].interview_id] = c

\* a registered session has ended while another session is live and has
\* taken a turn
C36_Witness ==
  \E c \in Conns, d \in Conns :
    /\ conn[c].phase = "closed" /\ conn[c].state.conn = c
    /\ Live(d) /\ conn[d].state.turn_count >= 2

\* C39: callStatus "processing" is not a dead end of the interview page:
\* once the candidate has stopped a live call, the page comes to callStatus
\* "analyzing" (and from there to the redirect to the completion page).
C39_ProcessingNotDeadEnd ==
  (page.callStatus = "processing") ~> (page.callStatus = "analyzing")

====
